---- MODULE Spec2Model ----
(***************************************************************************)
(* Model of the document-notes plugin: src/main.ts (DocumentNotesPlugin,   *)
(* the note store) and src/DocumentNotesView.ts (DocumentNotesView, the    *)
(* note controller).                                                       *)
(*                                                                         *)
(* JavaScript values are encoded as follows.  A string the program         *)
(* computes on (a path, an id) is a sequence of one-character strings, so  *)
(* that replace() and toString() are computed character by character.  An  *)
(* optional property holds <<>> for undefined and <<v>> for the value v.   *)
(* An object is a record; a property that the object does not have is      *)
(* outside the record's DOMAIN.                                            *)
(***************************************************************************)
EXTENDS Integers, Sequences, FiniteSets

\* ------------------------------------------------------------------ bounds
MaxNotes == 2
MaxClock == 10
MaxEvents == 3
MaxPending == 2
MaxLines == 2
MaxPathLen == 3

\* ------------------------------------------------------- program constants
\* while (!view && attempts < 10)
MaxAttempts == 10

\* private readonly notesFolder = 'document-notes'
notesFolder == <<"document-notes">>

\* ------------------------------------------------------------------ inputs
\* Document identities (TFile.path) of the vault.  The first two differ only
\* by a path separator against an underscore.
PathA == <<"a", "/", "b">>
PathB == <<"a", "_", "b">>
PathC == <<"c">>
Paths == {PathA, PathB, PathC}

\* getActiveFile() returning null
NoFile == <<>>

\* Values typed into a note's text area.
Contents == {"", "x"}

\* Selections of an editor: editor.getSelection() with getCursor('from') and
\* getCursor('to').
Pos(l, c) == [line |-> l, ch |-> c]
Selections == {[text |-> "Hello", from |-> Pos(1, 0), to |-> Pos(1, 5)]}

VARIABLES
    clock,                 \* Date.now()
    activeFile,            \* app.workspace.getActiveFile(): a path or NoFile
    originalDocumentPath,  \* DocumentNotesPlugin.originalDocumentPath
    disk,                  \* the vault adapter's files, by note path
    notes,                 \* DocumentNotesView.notes
    rendered,              \* the note widgets in notesContainer
    pending,               \* adapter reads and writes in flight
    nav,                   \* the running 'Ir a seleccion' handler
    cursor,                \* editor cursor of the document view
    selection,             \* editor selection of the document view
    origin,                \* history: for each note object of this.notes, the
                           \* document whose record it was loaded from or
                           \* that was active when it was created
    failed,                \* history: an adapter.write has rejected
    emitted,               \* what the last step showed: a Notice, an
                           \* uncaught rejection, or nothing
    events,                \* number of user events dispatched so far
    saved                  \* history: per document, the notes of its last
                           \* completed save

vars == <<clock, activeFile, originalDocumentPath, disk, notes, rendered,
          pending, nav, cursor, selection, origin, failed, emitted, events,
          saved>>

\* ------------------------------------------------------------ note objects
RequiredKeys == {"id", "content", "createdAt"}
OptionalKeys == {"selectedText", "selectionStart", "selectionEnd"}

\* Reading property k of note object n: undefined (<<>>) when n lacks it.
Get(n, k) == IF k \in DOMAIN n THEN n[k] ELSE <<>>

\* Two note objects with the same properties (an undefined property and a
\* missing one are the same to every reader of the object).
SameNote(a, b) ==
    /\ \A k \in RequiredKeys : a[k] = b[k]
    /\ \A k \in OptionalKeys : Get(a, k) = Get(b, k)

SameNotes(s, t) ==
    /\ Len(s) = Len(t)
    /\ \A i \in 1..Len(s) : SameNote(s[i], t[i])

\* Date.now().toString(): the decimal digits of n.
DigitChars == <<"0", "1", "2", "3", "4", "5", "6", "7", "8", "9">>
RECURSIVE ToString(_)
ToString(n) ==
    IF n < 10 THEN <<DigitChars[n + 1]>>
    ELSE ToString(n \div 10) \o <<DigitChars[(n % 10) + 1]>>

\* ------------------------------------------------------------- note store
\* Mutant of FileId: the path is used as it is.
FileIdUnchanged(path) == path

\* activeFile.path.replace(/[\/\\:]/g, '_')
FileId(path) ==
    [i \in DOMAIN path |->
        IF path[i] \in {"/", "\\", ":"} THEN "_" ELSE path[i]]

\* `${this.notesFolder}/${fileId}.json`
NotePath(path) == notesFolder \o <<"/">> \o FileId(path) \o <<".json">>

NotePaths == {NotePath(p) : p \in Paths}

\* Mutant of StringifyNote: selectionEnd is not written.
StringifyNoteWithoutEnd(n) ==
    [k \in RequiredKeys \cup
           {o \in (OptionalKeys \ {"selectionEnd"}) \cap DOMAIN n : n[o] # <<>>} |->
        IF k \in OptionalKeys THEN n[k][1] ELSE n[k]]

\* JSON.stringify of one note: the properties whose value is not undefined.
StringifyNote(n) ==
    [k \in RequiredKeys \cup {o \in OptionalKeys \cap DOMAIN n : n[o] # <<>>} |->
        IF k \in OptionalKeys THEN n[k][1] ELSE n[k]]

\* JSON.stringify(documentNotes, null, 2)
Stringify(path, ns) ==
    [documentPath |-> path,
     notes |-> [i \in 1..Len(ns) |-> StringifyNote(ns[i])]]

\* JSON.parse of one note: an object with exactly the stored properties.
\* ref is the identity of the new object.
ParseNote(j, r) ==
    [k \in {"ref"} \cup DOMAIN j |->
        IF k = "ref" THEN r
        ELSE IF k \in OptionalKeys THEN <<j[k]>>
        ELSE j[k]]

ParseNotes(js) == [i \in 1..Len(js) |-> ParseNote(js[i], i)]

\* File contents: no file, a complete JSON text, or a truncated one.
Absent == <<"absent">>
Truncated == <<"truncated">>
Json(doc) == <<"json", doc>>

\* --------------------------------------------------------------- the view
\* A rendered note widget: the closures of renderNotes hold the note object
\* (ref) and read its id and anchor, which no code ever changes.
Widget(n) ==
    [ref |-> n.ref, id |-> n.id,
     selectedText |-> Get(n, "selectedText"),
     selectionStart |-> Get(n, "selectionStart"),
     selectionEnd |-> Get(n, "selectionEnd")]

\* renderNotes(): one widget per note of this.notes
RenderNotes(ns) == {Widget(ns[i]) : i \in 1..Len(ns)}

Refs(ns) == {ns[i].ref : i \in 1..Len(ns)}

\* The identity of a newly allocated note object: one that no live object has.
FreshRef ==
    LET live == Refs(notes) \cup {w.ref : w \in rendered}
    IN  CHOOSE r \in 1..(Cardinality(live) + 1) : r \notin live

\* Mutant of InsertDesc: the comparator is a.createdAt - b.createdAt.
RECURSIVE InsertAsc(_, _)
InsertAsc(x, s) ==
    IF s = <<>> THEN <<x>>
    ELSE IF Head(s).createdAt < x.createdAt
         THEN <<Head(s)>> \o InsertAsc(x, Tail(s))
         ELSE <<x>> \o s

\* notes.sort((a, b) => b.createdAt - a.createdAt): stable, descending.
RECURSIVE InsertDesc(_, _)
InsertDesc(x, s) ==
    IF s = <<>> THEN <<x>>
    ELSE IF Head(s).createdAt > x.createdAt
         THEN <<Head(s)>> \o InsertDesc(x, Tail(s))
         ELSE <<x>> \o s

RECURSIVE SortDesc(_)
SortDesc(s) ==
    IF s = <<>> THEN <<>> ELSE InsertDesc(Head(s), SortDesc(Tail(s)))

\* Mutant of NewNote: selectionEnd is not passed on.
NewNoteWithoutEnd(sel, now1, now2) ==
    [ref |-> FreshRef,
     id |-> ToString(now1),
     content |-> "",
     createdAt |-> now2,
     selectedText |-> IF sel = <<>> THEN <<>> ELSE <<sel[1].text>>,
     selectionStart |-> IF sel = <<>> THEN <<>> ELSE <<sel[1].from>>,
     selectionEnd |-> <<>>]

\* The note object createNewNote builds; now1 and now2 are its two Date.now().
NewNote(sel, now1, now2) ==
    [ref |-> FreshRef,
     id |-> ToString(now1),
     content |-> "",
     createdAt |-> now2,
     selectedText |-> IF sel = <<>> THEN <<>> ELSE <<sel[1].text>>,
     selectionStart |-> IF sel = <<>> THEN <<>> ELSE <<sel[1].from>>,
     selectionEnd |-> IF sel = <<>> THEN <<>> ELSE <<sel[1].to>>]

\* What getNotesForCurrentFile() returns for a file content: <<>> for null,
\* <<ns>> for the parsed notes.  A missing file makes read throw, a truncated
\* text makes JSON.parse throw; both are caught.
LoadResult(content) ==
    IF content[1] = "json" THEN <<ParseNotes(content[2].notes)>> ELSE <<>>

\* load(D): getNotesForCurrentFile() while D is the active file
Load(path) == LoadResult(disk[NotePath(path)])

\* The plugin and its view are constructed, the notes folder is empty, and
\* onOpen has called refresh() for the file that is active, if any.
Init ==
    /\ clock = 9
    /\ activeFile \in Paths \cup {NoFile}
    /\ originalDocumentPath = <<>>
    /\ disk = [p \in NotePaths |-> Absent]
    /\ notes = <<>>
    /\ rendered = {}
    /\ pending = IF activeFile = NoFile THEN <<>>
                 ELSE <<[kind |-> "read", path |-> NotePath(activeFile)]>>
    /\ nav = [pc |-> "idle"]
    /\ cursor = <<>>
    /\ selection = <<>>
    /\ origin = <<>>
    /\ failed = FALSE
    /\ emitted = "none"
    /\ events = 0
    /\ saved = [d \in Paths |-> <<>>]

\* The host dispatches one more user event.
UserEvent ==
    /\ events < MaxEvents
    /\ events' = events + 1

\* Time passes.
Tick ==
    /\ clock < MaxClock
    /\ clock' = clock + 1
    /\ emitted' = "none"
    /\ UNCHANGED <<saved, failed, activeFile, originalDocumentPath, disk, notes,
                   origin, rendered, pending, nav, cursor, selection, events>>

\* refresh() up to the await of adapter.read: getNotesForCurrentFile returns
\* null at once without an active file, else the read of its record starts.
RefreshStart(file) ==
    IF file = NoFile
    THEN /\ notes' = <<>>
         /\ origin' = <<>>
         /\ rendered' = {}
         /\ UNCHANGED pending
    ELSE /\ Len(pending) < MaxPending
         /\ pending' = Append(pending, [kind |-> "read", path |-> NotePath(file)])
         /\ UNCHANGED <<notes, origin, rendered>>

\* workspace 'file-open': the active file becomes f and refreshView() runs.
FileOpen(f) ==
    /\ UserEvent
    /\ activeFile' = f
    /\ RefreshStart(f)
    /\ emitted' = "none"
    /\ UNCHANGED <<saved, failed, clock, originalDocumentPath, disk, nav, cursor,
                   selection>>

Without(s, i) == [j \in 1..(Len(s) - 1) |-> IF j < i THEN s[j] ELSE s[j + 1]]

\* adapter.read settles: the rest of getNotesForCurrentFile and of refresh.
ReadDone(i) ==
    /\ i \in DOMAIN pending
    /\ pending[i].kind = "read"
    /\ LET content == disk[pending[i].path]
           got == LoadResult(content)
       IN  IF got # <<>>
           THEN /\ originalDocumentPath' = content[2].documentPath
                /\ notes' = SortDesc(got[1])
                /\ origin' = [r \in Refs(notes') |-> content[2].documentPath]
                /\ rendered' = RenderNotes(notes')
           ELSE /\ notes' = <<>>
                /\ origin' = <<>>
                /\ rendered' = {}
                /\ UNCHANGED originalDocumentPath
    /\ pending' = Without(pending, i)
    /\ emitted' = "none"
    /\ UNCHANGED <<saved, failed, clock, activeFile, disk, nav, cursor, selection,
                   events>>

\* History of the note objects after a handler that keeps the objects of
\* this.notes: a kept object keeps its document, a new one gets the active
\* file.
OriginAfter ==
    [r \in Refs(notes') |->
        IF r \in DOMAIN origin THEN origin[r] ELSE activeFile]

\* The notes of ns as values, without the identity of the objects.
Values(ns) ==
    [i \in 1..Len(ns) |-> [k \in DOMAIN ns[i] \ {"ref"} |-> ns[i][k]]]

\* Mutant of SaveNotes: the list is written as it was before the handler
\* changed it.
SaveNotesBeforeChange(ns, op) ==
    IF activeFile = NoFile
    THEN UNCHANGED <<originalDocumentPath, pending>>
    ELSE /\ Len(pending) < MaxPending
         /\ originalDocumentPath' = activeFile
         /\ pending' = Append(pending,
                [kind |-> "write", path |-> NotePath(activeFile),
                 data |-> Stringify(activeFile, notes), op |-> op,
                 arg |-> Values(notes)])

\* saveNotes(ns) up to the await of adapter.write, called by handler op.  arg
\* keeps the argument as it is when JSON.stringify reads it.
SaveNotes(ns, op) ==
    IF activeFile = NoFile
    THEN UNCHANGED <<originalDocumentPath, pending>>
    ELSE /\ Len(pending) < MaxPending
         /\ originalDocumentPath' = activeFile
         /\ pending' = Append(pending,
                [kind |-> "write", path |-> NotePath(activeFile),
                 data |-> Stringify(activeFile, ns), op |-> op,
                 arg |-> Values(ns)])

\* createNewNote(selectedText, selectionStart, selectionEnd) up to the await
\* of saveNotes; without an active file saveNotes returns and renderNotes runs.
CreateNewNote(sel, op) ==
    /\ UserEvent
    /\ Len(notes) < MaxNotes
    /\ \E now2 \in {clock, clock + 1} :
        /\ now2 <= MaxClock
        /\ clock' = now2
        /\ notes' = <<NewNote(sel, clock, now2)>> \o notes
    /\ origin' = OriginAfter
    /\ SaveNotes(notes', op)
    /\ rendered' = IF activeFile = NoFile THEN RenderNotes(notes') ELSE rendered
    /\ emitted' = "none"
    /\ UNCHANGED <<saved, failed, activeFile, disk, nav, cursor, selection>>

\* The 'Nueva Nota' button: createNewNote()
NewNoteButton == CreateNewNote(<<>>, "create")

\* createNoteFromSelection(editor): the command and the editor menu item.  An
\* editor with a selection belongs to the active file.
CreateNoteFromSelection(s) ==
    /\ activeFile # NoFile
    /\ CreateNewNote(<<s>>, "createSel")

\* Mutant of EditNote: a note that is no longer in this.notes is put back.
EditNotePutsBack(w, value) ==
    /\ UserEvent
    /\ w \in rendered
    /\ \A i \in 1..Len(notes) : notes[i].ref = w.ref => notes[i].content # value
    /\ notes' = IF w.ref \in Refs(notes)
                THEN [i \in 1..Len(notes) |->
                        IF notes[i].ref = w.ref
                        THEN [notes[i] EXCEPT !.content = value,
                                              !.createdAt = clock]
                        ELSE notes[i]]
                ELSE Append(notes,
                        [ref |-> w.ref, id |-> w.id, content |-> value,
                         createdAt |-> clock, selectedText |-> w.selectedText,
                         selectionStart |-> w.selectionStart,
                         selectionEnd |-> w.selectionEnd])
    /\ origin' = OriginAfter
    /\ SaveNotes(notes', "edit")
    /\ emitted' = "none"
    /\ UNCHANGED <<saved, failed, clock, activeFile, disk, rendered, nav, cursor,
                   selection>>

\* Mutant of EditNote: the edited note also gets a new id.
EditNoteRenewingId(w, value) ==
    /\ UserEvent
    /\ w \in rendered
    /\ \A i \in 1..Len(notes) : notes[i].ref = w.ref => notes[i].content # value
    /\ notes' = [i \in 1..Len(notes) |->
                    IF notes[i].ref = w.ref
                    THEN [notes[i] EXCEPT !.content = value, !.createdAt = clock,
                                          !.id = ToString(clock)]
                    ELSE notes[i]]
    /\ origin' = OriginAfter
    /\ SaveNotes(notes', "edit")
    /\ emitted' = "none"
    /\ UNCHANGED <<saved, failed, clock, activeFile, disk, rendered, nav, cursor,
                   selection>>

\* textArea.onChange(value) of widget w
EditNote(w, value) ==
    /\ UserEvent
    /\ w \in rendered
    /\ \A i \in 1..Len(notes) : notes[i].ref = w.ref => notes[i].content # value
    /\ notes' = [i \in 1..Len(notes) |->
                    IF notes[i].ref = w.ref
                    THEN [notes[i] EXCEPT !.content = value, !.createdAt = clock]
                    ELSE notes[i]]
    /\ origin' = OriginAfter
    /\ SaveNotes(notes', "edit")
    /\ emitted' = "none"
    /\ UNCHANGED <<saved, failed, clock, activeFile, disk, rendered, nav, cursor,
                   selection>>

\* this.notes.filter(n => n.id !== note.id)
FilterOut(ns, id) == SelectSeq(ns, LAMBDA n : n.id # id)

\* deleteButton.onClick of widget w, up to the await of saveNotes
DeleteNote(w) ==
    /\ UserEvent
    /\ w \in rendered
    /\ notes' = FilterOut(notes, w.id)
    /\ origin' = OriginAfter
    /\ SaveNotes(notes', "delete")
    /\ rendered' = IF activeFile = NoFile THEN RenderNotes(notes') ELSE rendered
    /\ emitted' = "none"
    /\ UNCHANGED <<saved, failed, clock, activeFile, disk, nav, cursor, selection>>

\* History of the saves: when the save t of document D completes, saved[D]
\* is its notes if it succeeded and nothing if it failed, and every other
\* document that shares D's note path is marked as overwritten since its save.
SavedAfter(t, ok) ==
    [d \in Paths |->
        IF d = t.data.documentPath
        THEN (IF ok THEN <<[notes |-> t.arg, overwritten |-> FALSE]>> ELSE <<>>)
        ELSE IF NotePath(d) = t.path /\ saved[d] # <<>>
        THEN <<[saved[d][1] EXCEPT !.overwritten = TRUE]>>
        ELSE saved[d]]

\* adapter.write resolves: saveNotes returns and the handler goes on
\* (createNewNote and the delete handler render, createNoteFromSelection
\* then shows its Notice).
WriteDone(i) ==
    /\ i \in DOMAIN pending
    /\ pending[i].kind = "write"
    /\ disk' = [disk EXCEPT ![pending[i].path] = Json(pending[i].data)]
    /\ rendered' = IF pending[i].op = "edit" THEN rendered ELSE RenderNotes(notes)
    /\ emitted' = IF pending[i].op = "createSel"
                  THEN "Note created from selection" ELSE "none"
    /\ pending' = Without(pending, i)
    /\ saved' = SavedAfter(pending[i], TRUE)
    /\ UNCHANGED <<clock, activeFile, originalDocumentPath, notes, origin, failed,
                   nav, cursor, selection, events>>

\* What a write that fails can leave in the file: the old content, the new
\* text, or a part of the new text.
FailedWriteLeaves(old, data) == {old, Json(data), Truncated}

\* Mutant of WriteFail: the handler falls back to the notes of the record.
WriteFailRollingBack(i) ==
    /\ i \in DOMAIN pending
    /\ pending[i].kind = "write"
    /\ \E c \in FailedWriteLeaves(disk[pending[i].path], pending[i].data) :
        disk' = [disk EXCEPT ![pending[i].path] = c]
    /\ pending' = Without(pending, i)
    /\ emitted' = "uncaught"
    /\ saved' = SavedAfter(pending[i], FALSE)
    /\ failed' = TRUE
    /\ notes' = IF LoadResult(disk[pending[i].path]) = <<>> THEN <<>>
                ELSE LoadResult(disk[pending[i].path])[1]
    /\ origin' = [r \in Refs(notes') |-> pending[i].data.documentPath]
    /\ UNCHANGED <<clock, activeFile, originalDocumentPath, rendered, nav,
                   cursor, selection, events>>

\* adapter.write rejects: saveNotes has no catch, and neither has a handler
\* that awaits it, so the rejection leaves saveNotes and ends the handler.
WriteFail(i) ==
    /\ i \in DOMAIN pending
    /\ pending[i].kind = "write"
    /\ \E c \in FailedWriteLeaves(disk[pending[i].path], pending[i].data) :
        disk' = [disk EXCEPT ![pending[i].path] = c]
    /\ pending' = Without(pending, i)
    /\ emitted' = "uncaught"
    /\ saved' = SavedAfter(pending[i], FALSE)
    /\ failed' = TRUE
    /\ UNCHANGED <<clock, activeFile, originalDocumentPath, notes, origin, rendered,
                   nav, cursor, selection, events>>

\* ------------------------------------------------- 'Ir a seleccion' button
\* gotoButton.onClick of widget w up to the await of leaf.openFile.  The
\* button exists for a note with selectedText and selectionStart.  fileFound:
\* getFileByPath finds a TFile; hasLeaf: getMostRecentLeaf() is not null.
GotoClick(w, fileFound, hasLeaf) ==
    /\ UserEvent
    /\ nav.pc = "idle"
    /\ w \in rendered
    /\ w.selectedText # <<>> /\ w.selectionStart # <<>>
    /\ IF w.selectionStart = <<>> \/ w.selectionEnd = <<>> \/ w.selectedText = <<>>
       THEN /\ emitted' = "Informacion de seleccion incompleta"
            /\ UNCHANGED nav
       ELSE IF originalDocumentPath = <<>>
       THEN /\ emitted' = "No se pudo encontrar la ruta del archivo original"
            /\ UNCHANGED nav
       ELSE IF ~fileFound
       THEN /\ emitted' = "No se pudo encontrar el archivo"
            /\ UNCHANGED nav
       ELSE IF ~hasLeaf
       THEN /\ emitted' = "No se pudo obtener una hoja de trabajo"
            /\ UNCHANGED nav
       ELSE /\ emitted' = "none"
            /\ nav' = [pc |-> "opening", target |-> originalDocumentPath,
                       selectionStart |-> w.selectionStart[1],
                       selectionEnd |-> w.selectionEnd[1]]
    /\ UNCHANGED <<saved, failed, clock, activeFile, originalDocumentPath, disk,
                   notes, origin, rendered, pending, cursor, selection>>

\* leaf.openFile(targetFile, {active: true}) resolves: the target is the
\* active file, 'file-open' has run refreshView(), and the wait for the
\* editor starts with attempts = 0.
NavOpened ==
    /\ nav.pc = "opening"
    /\ activeFile' = nav.target
    /\ RefreshStart(nav.target)
    /\ nav' = [pc |-> "polling", attempts |-> 0,
               selectionStart |-> nav.selectionStart,
               selectionEnd |-> nav.selectionEnd]
    /\ emitted' = "none"
    /\ UNCHANGED <<saved, failed, clock, originalDocumentPath, disk, cursor,
                   selection, events>>

\* leaf.openFile rejects: the handler's catch shows the error.
NavOpenFailed ==
    /\ nav.pc = "opening"
    /\ nav' = [pc |-> "idle"]
    /\ emitted' = "Error al navegar"
    /\ UNCHANGED <<saved, failed, clock, activeFile, originalDocumentPath, disk,
                   notes, origin, rendered, pending, cursor, selection,
                   events>>

\* Mutant of NavResolve: the bounds check lets the line count itself through.
NavResolveOffByOne(docLength) ==
    IF nav.selectionStart.line > docLength
    THEN /\ emitted' = "La posicion de seleccion esta fuera del documento"
         /\ UNCHANGED <<cursor, selection>>
    ELSE /\ cursor' = <<nav.selectionStart>>
         /\ selection' = <<nav.selectionStart, nav.selectionEnd>>
         /\ emitted' = "Navegado a la seleccion"

\* The bounds check and the move, once view.editor is there.
NavResolve(docLength) ==
    IF nav.selectionStart.line >= docLength
    THEN /\ emitted' = "La posicion de seleccion esta fuera del documento"
         /\ UNCHANGED <<cursor, selection>>
    ELSE /\ cursor' = <<nav.selectionStart>>
         /\ selection' = <<nav.selectionStart, nav.selectionEnd>>
         /\ emitted' = "Navegado a la seleccion"

\* Mutant of NavPoll: a turn that finds no view does not count.
NavPollNotCounting(hasView, hasEditor, docLength) ==
    /\ nav.pc = "polling"
    /\ nav.attempts < MaxAttempts
    /\ IF hasView
       THEN /\ nav' = [pc |-> "idle"]
            /\ IF hasEditor
               THEN NavResolve(docLength)
               ELSE /\ emitted' = "No se pudo acceder al editor del documento"
                    /\ UNCHANGED <<cursor, selection>>
       ELSE /\ UNCHANGED <<cursor, selection, nav>>
            /\ emitted' = "none"
    /\ UNCHANGED <<saved, failed, clock, activeFile, originalDocumentPath, disk,
                   notes, origin, rendered, pending, events>>

\* One turn of the while loop and, when it finds the view, the rest of the
\* handler.  hasView: getActiveViewOfType(MarkdownView) is not null;
\* hasEditor: view.editor is set; docLength: editor.lineCount().
NavPoll(hasView, hasEditor, docLength) ==
    /\ nav.pc = "polling"
    /\ nav.attempts < MaxAttempts
    /\ IF hasView
       THEN /\ nav' = [pc |-> "idle"]
            /\ IF hasEditor
               THEN NavResolve(docLength)
               ELSE /\ emitted' = "No se pudo acceder al editor del documento"
                    /\ UNCHANGED <<cursor, selection>>
       ELSE /\ UNCHANGED <<cursor, selection>>
            /\ IF nav.attempts + 1 < MaxAttempts
               THEN /\ nav' = [nav EXCEPT !.attempts = nav.attempts + 1]
                    /\ emitted' = "none"
               ELSE /\ nav' = [pc |-> "idle"]
                    /\ emitted' = "No se pudo acceder al editor"
    /\ UNCHANGED <<saved, failed, clock, activeFile, originalDocumentPath, disk,
                   notes, origin, rendered, pending, events>>

Next ==
    \/ Tick
    \/ \E f \in Paths \cup {NoFile} : FileOpen(f)
    \/ \E i \in 1..MaxPending : ReadDone(i)
    \/ NewNoteButton
    \/ \E s \in Selections : CreateNoteFromSelection(s)
    \/ \E w \in rendered, v \in Contents : EditNote(w, v)
    \/ \E w \in rendered : DeleteNote(w)
    \/ \E i \in 1..MaxPending : WriteDone(i)
    \/ \E i \in 1..MaxPending : WriteFail(i)
    \/ \E w \in rendered, fileFound \in BOOLEAN, hasLeaf \in BOOLEAN :
          GotoClick(w, fileFound, hasLeaf)
    \/ NavOpened
    \/ NavOpenFailed
    \/ \E hasView \in BOOLEAN, hasEditor \in BOOLEAN, docLength \in 1..MaxLines :
          NavPoll(hasView, hasEditor, docLength)

Spec == Init /\ [][Next]_vars

\* The record an earlier session left for PathA: a note created at 7, a note
\* created from a selection at 8 and put in front of it, then the older note
\* edited at 9, which saveNotes wrote without sorting.
StoredRecord ==
    Stringify(PathA,
        <<[ref |-> 1, id |-> ToString(8), content |-> "", createdAt |-> 8,
           selectedText |-> <<"Hello">>, selectionStart |-> <<Pos(1, 0)>>,
           selectionEnd |-> <<Pos(1, 5)>>],
          [ref |-> 2, id |-> ToString(7), content |-> "x", createdAt |-> 9,
           selectedText |-> <<>>, selectionStart |-> <<>>,
           selectionEnd |-> <<>>]>>)

\* The plugin and its view are constructed in a vault where the notes folder
\* holds the record of an earlier session, and onOpen has called refresh().
InitRestart ==
    /\ clock = 9
    /\ activeFile \in Paths \cup {NoFile}
    /\ originalDocumentPath = <<>>
    /\ disk = [p \in NotePaths |->
                 IF p = NotePath(PathA) THEN Json(StoredRecord) ELSE Absent]
    /\ notes = <<>>
    /\ rendered = {}
    /\ pending = IF activeFile = NoFile THEN <<>>
                 ELSE <<[kind |-> "read", path |-> NotePath(activeFile)]>>
    /\ nav = [pc |-> "idle"]
    /\ cursor = <<>>
    /\ selection = <<>>
    /\ origin = <<>>
    /\ failed = FALSE
    /\ emitted = "none"
    /\ events = 0
    /\ saved = [d \in Paths |-> <<>>]

SpecRestart == InitRestart /\ [][Next]_vars

\* The timer of the wait loop fires and the event loop runs the handler on:
\* a turn of the loop that can be taken is taken.
SpecFair ==
    /\ Spec
    /\ WF_vars(\E hasView \in BOOLEAN, hasEditor \in BOOLEAN,
                  docLength \in 1..MaxLines :
                    NavPoll(hasView, hasEditor, docLength))

\* ------------------------------------------------------------------ claims
\* load(D) in the next state
LoadNext(path) == LoadResult(disk'[NotePath(path)])

\* load(D) returns a collection equal to ns
LoadReturns(path, ns) ==
    /\ Load(path) # <<>>
    /\ SameNotes(Load(path)[1], ns)

CreateArgs == {<<>>} \cup {<<s>> : s \in Selections}
CreateOps == {"create", "createSel"}

\* C1 as stated: once save(D, N) has completed successfully and no later save
\* to D has happened, load(D) returns a collection equal to N.
C1_LoadReturnsLastSaveOfDocument ==
    \A d \in Paths :
        saved[d] # <<>> => LoadReturns(d, saved[d][1].notes)

\* C1 amended: once save(D, N) has completed successfully and no later save to
\* D or to a document with the same note path has completed, load(D) returns
\* a collection equal to N: same notes, same fields, same order, nothing left
\* of an earlier save.
C1_LoadReturnsLastSaveOnNotePath ==
    \A d \in Paths :
        saved[d] # <<>> /\ ~saved[d][1].overwritten
            => LoadReturns(d, saved[d][1].notes)

\* C1 witness: a second save of a document has completed with two notes, one
\* anchored and one edited, after a first save with one note.
C1_Witness ==
    \E d \in Paths :
        /\ saved[d] # <<>>
        /\ ~saved[d][1].overwritten
        /\ Len(saved[d][1].notes) = 2
        /\ \E i \in 1..2 : Get(saved[d][1].notes[i], "selectedText") # <<>>
        /\ \E i \in 1..2 : saved[d][1].notes[i].content = "x"

\* C2: after any sequence of refresh, createNote and editNote the working set
\* is non-increasing in createdAt.
C2_WorkingSetSortedByCreatedAt ==
    \A i, j \in 1..Len(notes) :
        i < j => notes[i].createdAt >= notes[j].createdAt

\* C3: in every reachable working set all notes have pairwise distinct ids.
C3_IdsPairwiseDistinct ==
    \A i, j \in 1..Len(notes) : i # j => notes[i].id # notes[j].id

\* C4: deleteNote(id) removes exactly one note when a note with that id is
\* present and none when absent, every other note stays with its fields and
\* its relative order, and the reduced set is what is saved.
C4_DeleteRemovesExactlyOne ==
    [][\A w \in rendered :
          DeleteNote(w) =>
            /\ IF \E i \in 1..Len(notes) : notes[i].id = w.id
               THEN \E i \in 1..Len(notes) :
                        notes[i].id = w.id /\ notes' = Without(notes, i)
               ELSE notes' = notes
            /\ activeFile # NoFile =>
                 pending'[Len(pending')].data = Stringify(activeFile, notes')
      ]_vars

\* The characters that the note path does not tell apart.
Separators == {"/", "\\", ":"}
PathChars == {"a", "b", "_"} \cup Separators

RECURSIVE SeqsUpTo(_)
SeqsUpTo(n) ==
    IF n = 0 THEN {<<>>}
    ELSE LET shorter == SeqsUpTo(n - 1)
         IN  shorter \cup {Append(q, c) : q \in shorter, c \in PathChars}

\* Document identities: the non-empty paths of at most MaxPathLen characters.
Identities == SeqsUpTo(MaxPathLen) \ {<<>>}

SameUpToSeparators(p, q) ==
    /\ Len(p) = Len(q)
    /\ \A i \in 1..Len(p) :
          \/ p[i] = q[i]
          \/ {p[i], q[i]} \subseteq Separators \cup {"_"}

\* Two identities share a note path exactly when they differ only in
\* separators and underscores.
NotePathsCollideOnlyOnSeparators ==
    \A p, q \in Identities : NotePath(p) = NotePath(q) <=> SameUpToSeparators(p, q)

\* C5 as stated: for any two distinct document identities D1 and D2 a save for
\* D1 never changes what load(D2) returns.
C5_SaveLeavesEveryOtherDocument ==
    [][\A i \in DOMAIN pending : \A d \in Paths :
          /\ WriteDone(i) \/ WriteFail(i)
          /\ d # pending[i].data.documentPath
          => LoadNext(d) = Load(d)
      ]_vars

\* C5 amended: records are isolated per note path.  Two identities have the
\* same note path exactly when they differ only at positions where both have
\* one of / \ : _, and a save for D1 never changes what load(D2) returns when
\* the note paths of D1 and D2 differ; whatever changes load(D2) is the
\* completion of a save to D2's note path.
C5_RecordsIsolatedPerNotePath ==
    /\ []NotePathsCollideOnlyOnSeparators
    /\ [][\A d \in Paths :
            LoadNext(d) # Load(d) =>
              \E i \in DOMAIN pending :
                 /\ pending[i].kind = "write"
                 /\ WriteDone(i) \/ WriteFail(i)
                 /\ NotePath(pending[i].data.documentPath) = NotePath(d)
                 /\ pending[i].path = NotePath(d)
        ]_vars

\* C5 witness: two documents with different note paths both have a saved
\* record, and the later save left the earlier record as it was saved.
C5_Witness ==
    \E d1, d2 \in Paths :
        /\ NotePath(d1) # NotePath(d2)
        /\ saved[d1] # <<>> /\ saved[d2] # <<>>
        /\ Len(saved[d1][1].notes) > 0 /\ Len(saved[d2][1].notes) > 0
        /\ LoadReturns(d1, saved[d1][1].notes)
        /\ LoadReturns(d2, saved[d2][1].notes)
        /\ activeFile = d2

\* C6: createNote inserts the new note at index 0 with content "" and exactly
\* the captured anchor fields, keeps the earlier notes after it in their
\* order, saves the full updated working set to the record of the active
\* document, and when the write succeeds that record holds exactly that set.
C6_CreateInsertsAtFrontAndSavesAll ==
    [][/\ \A sel \in CreateArgs, op \in CreateOps :
            CreateNewNote(sel, op) =>
              /\ Len(notes') = Len(notes) + 1
              /\ Tail(notes') = notes
              /\ notes'[1].content = ""
              /\ notes'[1].selectedText =
                    (IF sel = <<>> THEN <<>> ELSE <<sel[1].text>>)
              /\ notes'[1].selectionStart =
                    (IF sel = <<>> THEN <<>> ELSE <<sel[1].from>>)
              /\ notes'[1].selectionEnd =
                    (IF sel = <<>> THEN <<>> ELSE <<sel[1].to>>)
              /\ activeFile # NoFile =>
                   LET t == pending'[Len(pending')]
                   IN  /\ t.kind = "write"
                       /\ t.path = NotePath(activeFile)
                       /\ t.data.documentPath = activeFile
                       /\ SameNotes(ParseNotes(t.data.notes), notes')
       /\ \A i \in DOMAIN pending :
            WriteDone(i) /\ pending[i].op \in CreateOps =>
              LET d == pending[i].data.documentPath
              IN  /\ LoadNext(d) # <<>>
                  /\ SameNotes(LoadNext(d)[1], pending[i].arg)
                  /\ SameNotes(LoadNext(d)[1], ParseNotes(pending[i].data.notes))
      ]_vars

\* C6 witness: a note created from a selection in front of an older note, its
\* save completed, and the record of the active document equal to the
\* working set.
C6_Witness ==
    /\ emitted = "Note created from selection"
    /\ pending = <<>>
    /\ Len(notes) = 2
    /\ notes[1].content = ""
    /\ Get(notes[1], "selectedText") = <<"Hello">>
    /\ activeFile # NoFile
    /\ LoadReturns(activeFile, notes)

\* A note object, or a stored note, with none or all three anchor fields.
AnchorWellFormed(n) ==
    LET present == {k \in OptionalKeys : Get(n, k) # <<>>}
    IN  present = {} \/ present = OptionalKeys

StoredAnchorWellFormed(j) ==
    LET present == OptionalKeys \cap DOMAIN j
    IN  present = {} \/ present = OptionalKeys

AnchorsWellFormed ==
    /\ \A i \in 1..Len(notes) : AnchorWellFormed(notes[i])
    /\ \A p \in NotePaths :
          disk[p][1] = "json" =>
             \A i \in 1..Len(disk[p][2].notes) :
                 StoredAnchorWellFormed(disk[p][2].notes[i])

\* C7: every note in every working set and persisted record has none or all
\* three of selectedText, selectionStart, selectionEnd; a note created without
\* a selection has none, and one created from a selection has all three equal
\* to the captured text and range.
C7_AnchorAllOrNothing ==
    /\ []AnchorsWellFormed
    /\ [][/\ NewNoteButton =>
               \A k \in OptionalKeys : Get(notes'[1], k) = <<>>
          /\ \A s \in Selections :
               CreateNoteFromSelection(s) =>
                  /\ Get(notes'[1], "selectedText") = <<s.text>>
                  /\ Get(notes'[1], "selectionStart") = <<s.from>>
                  /\ Get(notes'[1], "selectionEnd") = <<s.to>>
         ]_vars

\* C7 witness: an anchored note and a free note together in the working set
\* and in a persisted record.
C7_Witness ==
    /\ Len(notes) = 2
    /\ \E i, j \in 1..2 :
          /\ \A k \in OptionalKeys : Get(notes[i], k) # <<>>
          /\ \A k \in OptionalKeys : Get(notes[j], k) = <<>>
    /\ \E p \in NotePaths :
          /\ disk[p][1] = "json"
          /\ Len(disk[p][2].notes) = 2
          /\ \E i, j \in 1..2 :
                /\ OptionalKeys \subseteq DOMAIN disk[p][2].notes[i]
                /\ OptionalKeys \cap DOMAIN disk[p][2].notes[j] = {}

\* C8: for an anchored note whose document was located and whose editor
\* became available, navigation fails, changing neither cursor nor selection,
\* exactly when selectionStart.line >= the line count, and otherwise sets the
\* cursor and the selection to the stored selectionStart and selectionEnd.
C8_NavigationBoundsCheck ==
    [][/\ \A w \in rendered :
            GotoClick(w, TRUE, TRUE) /\ nav'.pc = "opening" =>
               /\ nav'.selectionStart = w.selectionStart[1]
               /\ nav'.selectionEnd = w.selectionEnd[1]
       /\ NavOpened =>
            /\ nav'.selectionStart = nav.selectionStart
            /\ nav'.selectionEnd = nav.selectionEnd
       /\ \A docLength \in 1..MaxLines :
            NavPoll(TRUE, TRUE, docLength) =>
               IF nav.selectionStart.line >= docLength
               THEN /\ emitted' = "La posicion de seleccion esta fuera del documento"
                    /\ cursor' = cursor
                    /\ selection' = selection
               ELSE /\ emitted' = "Navegado a la seleccion"
                    /\ cursor' = <<nav.selectionStart>>
                    /\ selection' = <<nav.selectionStart, nav.selectionEnd>>
       /\ \A hasView \in BOOLEAN, hasEditor \in BOOLEAN, docLength \in 1..MaxLines :
            NavPoll(hasView, hasEditor, docLength) /\ nav.attempts + 1 < MaxAttempts =>
               (nav'.pc = "polling" =>
                   /\ nav'.selectionStart = nav.selectionStart
                   /\ nav'.selectionEnd = nav.selectionEnd)
      ]_vars

\* C8 witness: a navigation has passed the bounds check and set the cursor and
\* the selection to the stored range.
C8_Witness ==
    /\ emitted = "Navegado a la seleccion"
    /\ cursor = <<Pos(1, 0)>>
    /\ selection = <<Pos(1, 0), Pos(1, 5)>>
    /\ nav.pc = "idle"

\* C9: a storage write failure never propagates as an exception out of save.
C9_SaveNeverThrows == emitted # "uncaught"

\* C10: after a failed save(D, N), load(D) returns the collection stored
\* before that save or N, never not-found when a record existed before.
C10_FailedSaveLeavesParseableRecord ==
    [][\A i \in DOMAIN pending :
          WriteFail(i) =>
            LET d == pending[i].data.documentPath
            IN  \/ LoadNext(d) = Load(d)
                \/ LoadNext(d) = LoadResult(Json(pending[i].data))
      ]_vars

\* C11: refresh never fails.  Without an active document, without a record,
\* on a read error or on an unparseable record the working set becomes the
\* empty collection; otherwise it becomes the stored notes, each one once,
\* ordered by createdAt descending, notes of equal createdAt in stored order.
C11_RefreshNeverFails ==
    [][/\ \A i \in DOMAIN pending :
            ReadDone(i) =>
              LET content == disk[pending[i].path] IN
              /\ emitted' # "uncaught"
              /\ IF content[1] = "json"
                 THEN LET stored == ParseNotes(content[2].notes) IN
                      /\ Len(notes') = Len(stored)
                      /\ Refs(notes') = 1..Len(stored)
                      /\ \A k \in 1..Len(notes') :
                            notes'[k] = stored[notes'[k].ref]
                      /\ \A k, l \in 1..Len(notes') :
                            k < l =>
                              \/ notes'[k].createdAt > notes'[l].createdAt
                              \/ /\ notes'[k].createdAt = notes'[l].createdAt
                                 /\ notes'[k].ref < notes'[l].ref
                 ELSE notes' = <<>>
       /\ FileOpen(NoFile) => notes' = <<>> /\ emitted' # "uncaught"
      ]_vars

\* C11 witness: a refresh has loaded a record whose notes were stored out of
\* order and the working set holds them newest first.
C11_Witness ==
    /\ activeFile # NoFile
    /\ disk[NotePath(activeFile)] = Json(StoredRecord)
    /\ Len(notes) = 2
    /\ notes[1].ref = 2 /\ notes[2].ref = 1
    /\ notes[1].createdAt > notes[2].createdAt
    /\ rendered = RenderNotes(notes)

C13_NavigationWaitIsBounded ==
    /\ [](nav.pc = "polling" => nav.attempts \in 0..9)
    /\ [][\A hasView \in BOOLEAN, hasEditor \in BOOLEAN,
             docLength \in 1..MaxLines :
              NavPoll(hasView, hasEditor, docLength) =>
                IF hasView /\ hasEditor
                THEN /\ nav'.pc = "idle"
                     /\ IF nav.selectionStart.line >= docLength
                        THEN /\ emitted' =
                                  "La posicion de seleccion esta fuera del documento"
                             /\ cursor' = cursor /\ selection' = selection
                        ELSE /\ emitted' = "Navegado a la seleccion"
                             /\ cursor' = <<nav.selectionStart>>
                ELSE /\ cursor' = cursor /\ selection' = selection
                     /\ IF hasView
                        THEN /\ nav'.pc = "idle"
                             /\ emitted' =
                                  "No se pudo acceder al editor del documento"
                        ELSE IF nav.attempts = 9
                        THEN /\ nav'.pc = "idle"
                             /\ emitted' = "No se pudo acceder al editor"
                        ELSE /\ nav'.pc = "polling"
                             /\ nav'.attempts = nav.attempts + 1
         ]_vars
    /\ (nav.pc = "polling") ~> (nav.pc = "idle")

\* C13 witness: the wait found no view ten times and the operation has ended
\* with the notice, cursor and selection never set.
C13_Witness ==
    /\ nav.pc = "idle"
    /\ emitted = "No se pudo acceder al editor"
    /\ cursor = <<>>
    /\ selection = <<>>

\* C14: two saves to the record of the same document are never in flight at
\* the same time.
C14_OneSaveInFlightPerDocument ==
    \A i, j \in DOMAIN pending :
        (/\ i # j
         /\ pending[i].kind = "write"
         /\ pending[j].kind = "write")
            => pending[i].data.documentPath # pending[j].data.documentPath

C16_SavedNotesBelongToTheDocument ==
    [][(/\ Len(pending') > Len(pending)
        /\ pending'[Len(pending')].kind = "write")
          => \A r \in Refs(notes') :
                NotePath(origin'[r]) = pending'[Len(pending')].path
      ]_vars

\* C17: whenever a document is active, no load or save is in flight and no
\* write has failed, the record of the active document holds exactly the
\* notes of the working set, or there is no record and the working set is
\* empty.
C17_RecordMatchesWorkingSetWhenQuiet ==
    (activeFile # NoFile /\ pending = <<>> /\ ~failed)
        => \/ LoadReturns(activeFile, notes)
           \/ /\ disk[NotePath(activeFile)] = Absent
              /\ notes = <<>>

\* C18: an edit of a note of the working set sets that note's content to the
\* typed value and its createdAt to now and changes nothing else: the note
\* keeps its id and its anchor, every other note keeps all its fields, and
\* the order stays.  No handler changes the id or the anchor of a note object
\* it keeps.
C18_EditChangesOnlyContentAndCreatedAt ==
    [][/\ \A w \in rendered, v \in Contents :
            EditNote(w, v) =>
              /\ Len(notes') = Len(notes)
              /\ \A i \in 1..Len(notes) :
                    IF notes[i].ref = w.ref
                    THEN /\ DOMAIN notes'[i] = DOMAIN notes[i]
                         /\ \A k \in DOMAIN notes[i] \ {"content", "createdAt"} :
                               notes'[i][k] = notes[i][k]
                         /\ notes'[i].content = v
                         /\ notes'[i].createdAt = clock
                    ELSE notes'[i] = notes[i]
       /\ ~(\E i \in DOMAIN pending : ReadDone(i)) =>
             \A i \in 1..Len(notes), j \in 1..Len(notes') :
                notes'[j].ref = notes[i].ref =>
                  /\ notes'[j].id = notes[i].id
                  /\ \A k \in OptionalKeys :
                        Get(notes'[j], k) = Get(notes[i], k)
      ]_vars

\* C18 witness: with two notes in the working set, the anchored one has been
\* edited and still has its anchor, and the save of the edit is in flight.
C18_Witness ==
    /\ Len(notes) = 2
    /\ \E i \in 1..2 :
          /\ notes[i].content = "x"
          /\ Get(notes[i], "selectedText") = <<"Hello">>
          /\ Get(notes[i], "selectionStart") = <<Pos(1, 0)>>
          /\ Get(notes[i], "selectionEnd") = <<Pos(1, 5)>>
          /\ notes[3 - i].content = ""
    /\ \E t \in DOMAIN pending :
          pending[t].kind = "write" /\ pending[t].op = "edit"

\* C19: whenever 'Ir a seleccion' is used on a note shown in the working set
\* and goes on to open a document, the document it opens is one whose record
\* is the record the note was loaded from, or the record of the document
\* under which the note was created.
C19_NavigationOpensTheNotesDocument ==
    [][\A w \in rendered, fileFound \in BOOLEAN, hasLeaf \in BOOLEAN :
          (/\ GotoClick(w, fileFound, hasLeaf)
           /\ w.ref \in Refs(notes)
           /\ nav'.pc = "opening")
             => NotePath(nav'.target) = NotePath(origin[w.ref])
      ]_vars
====
